---- MODULE Spec2Model ----
(***************************************************************************)
(* A model of the Memory Mesh Python SDK (memory_mesh.MemoryMeshClient).   *)
(*                                                                         *)
(* Python values are tagged tuples, so that values of different Python     *)
(* types can be compared:                                                  *)
(*   <<"None">>  <<"bool", b>>  <<"int", n>>  <<"str", s>>                 *)
(*   <<"list", items>>  <<"dict", pairs>>                                  *)
(* A str is a sequence of pieces of text (single characters wherever the   *)
(* text is encoded or parsed); the empty str is the empty sequence.  A     *)
(* dict is its sequence of <<key, value>> pairs in insertion order, the    *)
(* keys being strs and unique.                                             *)
(***************************************************************************)
EXTENDS Integers, Sequences, FiniteSets, TLC

\* ------------------------------------------------------------------------
\* Python values
\* ------------------------------------------------------------------------
PyNone == <<"None">>
PyBool(b) == <<"bool", b>>
PyInt(n) == <<"int", n>>
PyStr(s) == <<"str", s>>
PyList(items) == <<"list", items>>
PyDict(pairs) == <<"dict", pairs>>

IsNone(v) == v[1] = "None"
IsStr(v) == v[1] = "str"
IsList(v) == v[1] = "list"
IsDict(v) == v[1] = "dict"

\* bool(v): the truth value Python gives a value (`x or y`, `if x:`).
Truthy(v) ==
    CASE v[1] = "None" -> FALSE
      [] v[1] = "bool" -> v[2]
      [] v[1] = "int" -> v[2] # 0
      [] OTHER -> Len(v[2]) > 0

\* Whether the pairs of a dict hold the key k.
HasKey(pairs, k) == \E i \in 1..Len(pairs) : pairs[i][1] = k

\* The value the pairs of a dict hold under k, or dflt: dict.get(k, dflt).
PairsGet(pairs, k, dflt) ==
    IF HasKey(pairs, k)
    THEN pairs[CHOOSE i \in 1..Len(pairs) : pairs[i][1] = k][2]
    ELSE dflt

\* d[k] = v on the pairs of a dict: a held key keeps its place.
PairsSet(pairs, k, v) ==
    IF HasKey(pairs, k)
    THEN [i \in 1..Len(pairs) |-> IF pairs[i][1] = k THEN <<k, v>> ELSE pairs[i]]
    ELSE Append(pairs, <<k, v>>)

\* ------------------------------------------------------------------------
\* JSON encoding: json.dumps with its default separators (", " and ": ")
\* ------------------------------------------------------------------------
Digits == <<"0", "1", "2", "3", "4", "5", "6", "7", "8", "9">>

RECURSIVE IntDigits(_)
IntDigits(n) ==
    IF n < 10 THEN <<Digits[n + 1]>>
    ELSE IntDigits(n \div 10) \o <<Digits[(n % 10) + 1]>>

\* A bug: characters are copied without escaping.
EscapeCharRaw(c) == <<c>>

\* One character of a str inside a JSON string: quote and backslash escaped.
EscapeChar(c) ==
    IF c = "\"" THEN <<"\\", "\"">>
    ELSE IF c = "\\" THEN <<"\\", "\\">>
    ELSE <<c>>

RECURSIVE EscapeAll(_)
EscapeAll(s) ==
    IF s = <<>> THEN <<>> ELSE EscapeChar(Head(s)) \o EscapeAll(Tail(s))

EncodeString(s) == <<"\"">> \o EscapeAll(s) \o <<"\"">>

RECURSIVE dumps(_), DumpItems(_), DumpPairs(_)
dumps(v) ==
    CASE v[1] = "None" -> <<"n", "u", "l", "l">>
      [] v[1] = "bool" -> IF v[2] THEN <<"t", "r", "u", "e">>
                                  ELSE <<"f", "a", "l", "s", "e">>
      [] v[1] = "int" -> IntDigits(v[2])
      [] v[1] = "str" -> EncodeString(v[2])
      [] v[1] = "list" -> <<"[">> \o DumpItems(v[2]) \o <<"]">>
      [] v[1] = "dict" -> <<"{">> \o DumpPairs(v[2]) \o <<"}">>

DumpItems(items) ==
    IF items = <<>> THEN <<>>
    ELSE IF Len(items) = 1 THEN dumps(items[1])
    ELSE dumps(items[1]) \o <<",", " ">> \o DumpItems(Tail(items))

DumpPairs(pairs) ==
    IF pairs = <<>> THEN <<>>
    ELSE LET one == EncodeString(pairs[1][1]) \o <<":", " ">> \o dumps(pairs[1][2])
         IN  IF Len(pairs) = 1 THEN one
             ELSE one \o <<",", " ">> \o DumpPairs(Tail(pairs))

\* ------------------------------------------------------------------------
\* JSON decoding: json.loads, a recursive-descent parser.  Every parser
\* returns <<ok, value, next>>: whether it parsed, the value, and the index
\* after what it read.
\* ------------------------------------------------------------------------
ParseFail == <<FALSE, PyNone, 0>>

At(s, i) == IF i >= 1 /\ i <= Len(s) THEN s[i] ELSE "EOF"

IsDigit(c) == \E d \in 1..10 : Digits[d] = c
DigitValue(c) == (CHOOSE d \in 1..10 : Digits[d] = c) - 1

RECURSIVE SkipWs(_, _)
SkipWs(s, i) == IF At(s, i) = " " THEN SkipWs(s, i + 1) ELSE i

\* The literal word w at index i of s.
MatchWord(s, i, w, v) ==
    IF i + Len(w) - 1 <= Len(s) /\ SubSeq(s, i, i + Len(w) - 1) = w
    THEN <<TRUE, v, i + Len(w)>>
    ELSE ParseFail

RECURSIVE ParseDigits(_, _, _)
ParseDigits(s, i, acc) ==
    IF IsDigit(At(s, i)) THEN ParseDigits(s, i + 1, acc * 10 + DigitValue(s[i]))
    ELSE <<TRUE, PyInt(acc), i>>

\* A number: a lone 0, or a digit 1-9 followed by digits.
ParseNumber(s, i) ==
    IF s[i] = "0" THEN <<TRUE, PyInt(0), i + 1>> ELSE ParseDigits(s, i, 0)

\* The characters of a string, from the index after its opening quote.
RECURSIVE ParseChars(_, _, _)
ParseChars(s, i, acc) ==
    LET c == At(s, i) IN
    IF c = "EOF" THEN ParseFail
    ELSE IF c = "\"" THEN <<TRUE, PyStr(acc), i + 1>>
    ELSE IF c = "\\"
         THEN IF At(s, i + 1) \in {"\"", "\\", "/"}
              THEN ParseChars(s, i + 2, Append(acc, s[i + 1]))
              ELSE ParseFail
    ELSE ParseChars(s, i + 1, Append(acc, c))

RECURSIVE ParseValue(_, _), ParseItems(_, _, _), ParseMembers(_, _, _)
ParseValue(s, i) ==
    LET c == At(s, i) IN
    CASE c = "n" -> MatchWord(s, i, <<"n", "u", "l", "l">>, PyNone)
      [] c = "t" -> MatchWord(s, i, <<"t", "r", "u", "e">>, PyBool(TRUE))
      [] c = "f" -> MatchWord(s, i, <<"f", "a", "l", "s", "e">>, PyBool(FALSE))
      [] c = "\"" -> ParseChars(s, i + 1, <<>>)
      [] c = "[" ->
            LET j == SkipWs(s, i + 1) IN
            IF At(s, j) = "]" THEN <<TRUE, PyList(<<>>), j + 1>>
            ELSE ParseItems(s, j, <<>>)
      [] c = "{" ->
            LET j == SkipWs(s, i + 1) IN
            IF At(s, j) = "}" THEN <<TRUE, PyDict(<<>>), j + 1>>
            ELSE ParseMembers(s, j, <<>>)
      [] IsDigit(c) -> ParseNumber(s, i)
      [] OTHER -> ParseFail

\* The items of an array, from the index of an item.
ParseItems(s, i, acc) ==
    LET r == ParseValue(s, i) IN
    IF ~r[1] THEN ParseFail
    ELSE LET j == SkipWs(s, r[3]) IN
         IF At(s, j) = "," THEN ParseItems(s, SkipWs(s, j + 1), Append(acc, r[2]))
         ELSE IF At(s, j) = "]" THEN <<TRUE, PyList(Append(acc, r[2])), j + 1>>
         ELSE ParseFail

\* The members of an object, from the index of a key; a repeated key keeps
\* its last value.
ParseMembers(s, i, acc) ==
    IF At(s, i) # "\"" THEN ParseFail
    ELSE LET k == ParseChars(s, i + 1, <<>>) IN
         IF ~k[1] THEN ParseFail
         ELSE LET j == SkipWs(s, k[3]) IN
              IF At(s, j) # ":" THEN ParseFail
              ELSE LET r == ParseValue(s, SkipWs(s, j + 1)) IN
                   IF ~r[1] THEN ParseFail
                   ELSE LET m == SkipWs(s, r[3])
                            got == PairsSet(acc, k[2][2], r[2])
                        IN  IF At(s, m) = "," THEN ParseMembers(s, SkipWs(s, m + 1), got)
                            ELSE IF At(s, m) = "}" THEN <<TRUE, PyDict(got), m + 1>>
                            ELSE ParseFail

\* json.loads(text): <<TRUE, value>>, or <<FALSE, None>> where Python raises
\* JSONDecodeError (no value, or text after the value).
loads(text) ==
    LET r == ParseValue(text, SkipWs(text, 1)) IN
    IF r[1] /\ SkipWs(text, r[3]) = Len(text) + 1 THEN <<TRUE, r[2]>>
    ELSE <<FALSE, PyNone>>

\* ------------------------------------------------------------------------
\* MemoryMeshClient
\* ------------------------------------------------------------------------
DEFAULT_BASE_URL == <<"https://api.example.com">>
MEMORIES_PATH == <<"/api/v1/mesh/memories">>
QUERY_PATH == <<"/api/v1/mesh/memories/query">>
DEFAULT_LIMIT == 10

K_memories == <<"m", "e", "m", "o", "r", "i", "e", "s">>
K_stored_ids == <<"s", "t", "o", "r", "e", "d", "_", "i", "d", "s">>
K_hits == <<"h", "i", "t", "s">>
K_q == <<"q">>
K_limit == <<"limit">>
K_filters == <<"filters">>
H_ContentType == <<"Content-Type">>
H_Authorization == <<"Authorization">>

\* `a or b`
PyOr(a, b) == IF Truthy(a) THEN a ELSE b

\* f"{v}" for a str or None
FStr(v) == IF IsNone(v) THEN <<"None">> ELSE v[2]

\* __init__(self, api_key, base_url=None): the fields of the new client.
ClientInit(api_key_arg, base_url_arg) ==
    [api_key |-> api_key_arg,
     base_url |-> PyOr(base_url_arg, PyStr(DEFAULT_BASE_URL))]

\* A bug: the header names another scheme.
AuthorizationHeaderToken(key) == PyStr(<<"Token ">> \o FStr(key))

\* f"Bearer {self.api_key}"
AuthorizationHeader(key) == PyStr(<<"Bearer ">> \o FStr(key))

\* A bug: the last record is left out of the body.
AddMemoriesBodyTruncated(memories) ==
    dumps(PyDict(<< <<K_memories,
                     PyList(SubSeq(memories[2], 1, Len(memories[2]) - 1))>> >>))

\* json={"memories": memories}: the body requests writes for it.
AddMemoriesBody(memories) == dumps(PyDict(<< <<K_memories, memories>> >>))

\* The request add_memories hands to requests.post.
AddMemoriesRequest(key, base, memories) ==
    [method |-> "POST",
     url |-> FStr(base) \o MEMORIES_PATH,
     headers |-> PyDict(<< <<H_ContentType, PyStr(<<"application/json">>)>>,
                           <<H_Authorization, AuthorizationHeader(key)>> >>),
     params |-> PyDict(<<>>),
     body |-> AddMemoriesBody(memories)]

\* A bug: `if filters is not None` in place of `if filters`.
QueryParamsNotNone(query, limit, filters) ==
    LET params == << <<K_q, query>>, <<K_limit, limit>> >> IN
    IF ~IsNone(filters)
    THEN PyDict(PairsSet(params, K_filters, PyStr(dumps(filters))))
    ELSE PyDict(params)

\* params = {"q": query, "limit": limit}, with filters when they are truthy.
QueryParams(query, limit, filters) ==
    LET params == << <<K_q, query>>, <<K_limit, limit>> >> IN
    IF Truthy(filters)
    THEN PyDict(PairsSet(params, K_filters, PyStr(dumps(filters))))
    ELSE PyDict(params)

\* The request query_memories hands to requests.get.
QueryMemoriesRequest(key, base, query, limit, filters) ==
    [method |-> "GET",
     url |-> FStr(base) \o QUERY_PATH,
     headers |-> PyDict(<< <<H_Authorization, AuthorizationHeader(key)>> >>),
     params |-> QueryParams(query, limit, filters),
     body |-> <<>>]

\* What a call gives its caller.
Pending == [kind |-> "pending", error |-> "", status |-> 0, body |-> <<>>,
            value |-> PyNone]
Returns(v) == [kind |-> "return", error |-> "", status |-> 0, body |-> <<>>,
               value |-> v]
Raises(e, status, body) == [kind |-> "raise", error |-> e, status |-> status,
                            body |-> body, value |-> PyNone]

\* A bug: only client errors raise.
RaisesForStatus4xx(status) == 400 <= status /\ status < 500

\* response.raise_for_status(): whether it raises HTTPError.
RaisesForStatus(status) ==
    \/ 400 <= status /\ status < 500
    \/ 500 <= status /\ status < 600

\* A bug: a body that does not parse counts as an empty result.
FinishSwallow(field, status, body) ==
    IF RaisesForStatus(status) THEN Raises("HTTPError", status, body)
    ELSE LET data == loads(body) IN
         IF ~data[1] THEN Returns(PyList(<<>>))
         ELSE IF ~IsDict(data[2]) THEN Raises("AttributeError", 0, <<>>)
         ELSE Returns(PairsGet(data[2][2], field, PyList(<<>>)))

\* raise_for_status(); data = response.json(); return data.get(field, [])
Finish(field, status, body) ==
    IF RaisesForStatus(status) THEN Raises("HTTPError", status, body)
    ELSE LET data == loads(body) IN
         IF ~data[1] THEN Raises("JSONDecodeError", 0, <<>>)
         ELSE IF ~IsDict(data[2]) THEN Raises("AttributeError", 0, <<>>)
         ELSE Returns(PairsGet(data[2][2], field, PyList(<<>>)))

\* ------------------------------------------------------------------------
\* Bounds and inputs
\* ------------------------------------------------------------------------
NumCallers == 2
MaxCalls == 2

Callers == 1..NumCallers

S_note == <<"n", "o", "t", "e">>
Rec1 == PyDict(<< << <<"t", "y", "p", "e">>, PyStr(S_note)>> >>)
Rec2 == PyDict(<< << <<"i", "d">>, PyInt(17)>>,
                  << <<"q", "\"">>, PyStr(<<"a", "\"", "\\", " ">>)>>,
                  << <<"t">>, PyList(<<PyBool(TRUE), PyNone, PyDict(<<>>)>>)>> >>)

ApiKeyChoices == << PyStr(<<"key-1">>), PyStr(<<"key-2">>) >>
BaseUrlChoices == << PyNone, PyStr(<<>>), PyStr(<<"http://localhost:3000">>) >>
MemoryChoices == << PyList(<<>>), PyList(<<Rec1>>), PyList(<<Rec2, Rec1>>),
                    PyList(<<Rec1, Rec2>>) >>
QueryChoices == << PyStr(<<"f", "o", "o">>), PyStr(<<>>) >>
LimitChoices == << PyInt(DEFAULT_LIMIT), PyInt(0) >>
FilterChoices == << PyNone, PyDict(<<>>), Rec1, Rec2 >>

M1 == PyStr(<<"m", "1">>)
M2 == PyStr(<<"m", "2">>)
HitA == PyDict(<< << <<"i", "d">>, PyStr(<<"a">>)>> >>)
HitB == PyDict(<< << <<"i", "d">>, PyStr(<<"b">>)>> >>)

StatusChoices == {200, 204, 399, 400, 404, 500, 599, 600}
BodyChoices ==
    << dumps(PyDict(<< <<K_stored_ids, PyList(<<M1, M2>>)>>,
                       <<K_hits, PyList(<<HitA, HitB>>)>> >>)),
       dumps(PyDict(<< << <<"e", "r", "r", "o", "r">>, PyStr(<<"n", "o">>)>> >>)),
       dumps(PyDict(<< <<K_stored_ids, PyNone>>, <<K_hits, PyNone>> >>)),
       dumps(PyDict(<< <<K_stored_ids, PyList(<<PyInt(1), M2>>)>>,
                       <<K_hits, PyStr(<<"x">>)>> >>)),
       dumps(PyList(<<>>)),
       dumps(PyNone),
       dumps(PyStr(<<"o", "k">>)),
       <<>>,
       <<"<", "h", "t", "m", "l", ">">>,
       <<"{", "\"", "h", "i", "t", "s", "\"", ":", " ", "[">> >>

\* The smaller inputs of the concurrent specification.
ConcStatusChoices == {200, 404}
ConcBodyChoices ==
    << BodyChoices[1], BodyChoices[5] >>

\* ------------------------------------------------------------------------
\* State
\* ------------------------------------------------------------------------
VARIABLES
    ctor,        \* the arguments the client was constructed with
    api_key,     \* self.api_key
    base_url,    \* self.base_url
    pc,          \* per caller: "idle", "sent", "received", "done"
    call,        \* per caller: the operation called and its arguments
    request,     \* per caller: the request handed to requests
    response,    \* per caller: the response requests gave back
    outcome,     \* per caller: what the call gave its caller
    sent,        \* per caller: requests issued on behalf of the current call
    n_calls,     \* calls started
    n_requests   \* requests issued

vars == <<ctor, api_key, base_url, pc, call, request, response, outcome, sent,
          n_calls, n_requests>>

NoCall == [op |-> "none", memories |-> PyNone, query |-> PyNone,
           limit |-> PyNone, filters |-> PyNone]
NoRequest == [method |-> "", url |-> <<>>, headers |-> PyDict(<<>>),
              params |-> PyDict(<<>>), body |-> <<>>]
NoResponse == [kind |-> "none", status |-> 0, body |-> <<>>]

Construct(k, u) ==
    /\ ctor = [api_key |-> k, base_url |-> u]
    /\ api_key = ClientInit(k, u).api_key
    /\ base_url = ClientInit(k, u).base_url
    /\ pc = [c \in Callers |-> "idle"]
    /\ call = [c \in Callers |-> NoCall]
    /\ request = [c \in Callers |-> NoRequest]
    /\ response = [c \in Callers |-> NoResponse]
    /\ outcome = [c \in Callers |-> Pending]
    /\ sent = [c \in Callers |-> 0]
    /\ n_calls = 0
    /\ n_requests = 0

Init ==
    \E k \in 1..Len(ApiKeyChoices), u \in 1..Len(BaseUrlChoices) :
        Construct(ApiKeyChoices[k], BaseUrlChoices[u])

InitConc == Construct(ApiKeyChoices[1], BaseUrlChoices[1])

\* Whether caller c may start a call: it has none in progress.
CanEnter(c) ==
    /\ pc[c] \in {"idle", "done"}
    /\ n_calls < MaxCalls

\* Caller c is in a method: the request is built and handed to requests.
Entered(c, theCall, theRequest) ==
    /\ pc' = [pc EXCEPT ![c] = "sent"]
    /\ call' = [call EXCEPT ![c] = theCall]
    /\ request' = [request EXCEPT ![c] = theRequest]
    /\ response' = [response EXCEPT ![c] = NoResponse]
    /\ outcome' = [outcome EXCEPT ![c] = Pending]
    /\ sent' = [sent EXCEPT ![c] = 1]
    /\ n_calls' = n_calls + 1
    /\ n_requests' = n_requests + 1
    /\ UNCHANGED <<ctor, api_key, base_url>>

AddMemoriesCall(c, memories) ==
    /\ CanEnter(c)
    /\ Entered(c,
               [NoCall EXCEPT !.op = "add_memories", !.memories = memories],
               AddMemoriesRequest(api_key, base_url, memories))

QueryMemoriesCall(c, query, limit, filters) ==
    /\ CanEnter(c)
    /\ Entered(c,
               [NoCall EXCEPT !.op = "query_memories", !.query = query,
                              !.limit = limit, !.filters = filters],
               QueryMemoriesRequest(api_key, base_url, query, limit, filters))

\* A bug: a failed request is sent again.
TransportErrorRetry(c) ==
    /\ pc[c] = "sent"
    /\ sent[c] < 2
    /\ sent' = [sent EXCEPT ![c] = @ + 1]
    /\ n_requests' = n_requests + 1
    /\ UNCHANGED <<ctor, api_key, base_url, pc, call, request, response,
                   outcome, n_calls>>

\* requests.post / requests.get raise (no connection, timeout): the
\* exception leaves the method.
TransportError(c) ==
    /\ pc[c] = "sent"
    /\ pc' = [pc EXCEPT ![c] = "done"]
    /\ outcome' = [outcome EXCEPT ![c] = Raises("ConnectionError", 0, <<>>)]
    /\ UNCHANGED <<ctor, api_key, base_url, call, request, response, sent,
                   n_calls, n_requests>>

\* requests.post / requests.get give back the server's response.
Respond(c, status, body) ==
    /\ pc[c] = "sent"
    /\ pc' = [pc EXCEPT ![c] = "received"]
    /\ response' = [response EXCEPT
                       ![c] = [kind |-> "response", status |-> status, body |-> body]]
    /\ UNCHANGED <<ctor, api_key, base_url, call, request, outcome, sent,
                   n_calls, n_requests>>

\* Caller c leaves a method with what the response r makes of the field.
Left(c, field, r) ==
    /\ pc' = [pc EXCEPT ![c] = "done"]
    /\ outcome' = [outcome EXCEPT ![c] = Finish(field, r.status, r.body)]
    /\ UNCHANGED <<ctor, api_key, base_url, call, request, response, sent,
                   n_calls, n_requests>>

\* A bug: the response is kept where every call in flight reads it.
AddMemoriesReturnShared(c) ==
    \E d \in Callers :
        /\ pc[c] = "received"
        /\ call[c].op = "add_memories"
        /\ response[d].kind = "response"
        /\ Left(c, K_stored_ids, response[d])

\* add_memories, from the response on: lines 20-22.
AddMemoriesReturn(c) ==
    /\ pc[c] = "received"
    /\ call[c].op = "add_memories"
    /\ Left(c, K_stored_ids, response[c])

\* query_memories, from the response on: lines 40-42.
QueryMemoriesReturn(c) ==
    /\ pc[c] = "received"
    /\ call[c].op = "query_memories"
    /\ Left(c, K_hits, response[c])

\* One caller, every input.
Next ==
    \/ \E m \in 1..Len(MemoryChoices) : AddMemoriesCall(1, MemoryChoices[m])
    \/ \E q \in 1..Len(QueryChoices), l \in 1..Len(LimitChoices),
          f \in 1..Len(FilterChoices) :
            QueryMemoriesCall(1, QueryChoices[q], LimitChoices[l], FilterChoices[f])
    \/ TransportError(1)
    \/ \E s \in StatusChoices, b \in 1..Len(BodyChoices) : Respond(1, s, BodyChoices[b])
    \/ AddMemoriesReturn(1)
    \/ QueryMemoriesReturn(1)

Spec == Init /\ [][Next]_vars

\* Callers in parallel, fewer inputs.
NextConc ==
    \E c \in Callers :
        \/ \E m \in {2, 3} : AddMemoriesCall(c, MemoryChoices[m])
        \/ \E f \in {1, 3} :
            QueryMemoriesCall(c, QueryChoices[1], LimitChoices[1], FilterChoices[f])
        \/ TransportError(c)
        \/ \E s \in ConcStatusChoices, b \in 1..Len(ConcBodyChoices) :
            Respond(c, s, ConcBodyChoices[b])
        \/ AddMemoriesReturn(c)
        \/ QueryMemoriesReturn(c)

SpecConc == InitConc /\ [][NextConc]_vars

\* ------------------------------------------------------------------------
\* Properties
\* ------------------------------------------------------------------------
\* The response field the operation of caller c reads.
FieldOf(c) == IF call[c].op = "add_memories" THEN K_stored_ids ELSE K_hits

\* Caller c's call has ended on a response whose status is no 4xx/5xx.
EndedOnSuccessStatus(c) ==
    /\ pc[c] = "done"
    /\ response[c].kind = "response"
    /\ response[c].status \notin 400..599

\* C1: a call whose response has a status in 400..599 fails with an
\* HTTPError carrying that status and the response body, and returns no
\* result, whatever the body holds.
C1_HttpErrorOn4xx5xx ==
    \A c \in Callers :
        (/\ pc[c] = "done"
         /\ response[c].kind = "response"
         /\ response[c].status \in 400..599)
        => /\ outcome[c].kind = "raise"
           /\ outcome[c].error = "HTTPError"
           /\ outcome[c].status = response[c].status
           /\ outcome[c].body = response[c].body
           /\ outcome[c].value = PyNone

\* A 500 whose body is valid JSON holding stored_ids ended add_memories in
\* an HTTPError.
C1_Witness ==
    /\ pc[1] = "done"
    /\ call[1].op = "add_memories"
    /\ response[1].status = 500
    /\ response[1].body = BodyChoices[1]
    /\ outcome[1].error = "HTTPError"

\* C2: a call whose response has a success status and a JSON body without
\* the expected field returns the empty sequence, whatever the body's
\* content or top-level shape.
C2_MissingFieldGivesEmpty ==
    \A c \in Callers :
        LET data == loads(response[c].body) IN
        (/\ EndedOnSuccessStatus(c)
         /\ data[1]
         /\ ~(IsDict(data[2]) /\ HasKey(data[2][2], FieldOf(c))))
        => outcome[c] = Returns(PyList(<<>>))

\* C3: what add_memories returns is a sequence of strings, whatever the
\* stored_ids field of the response holds, and ["m1", "m2"] for a field that
\* holds ["m1", "m2"].
C3_StoredIdsAreStrings ==
    \A c \in Callers :
        (/\ pc[c] = "done"
         /\ call[c].op = "add_memories"
         /\ outcome[c].kind = "return")
        => LET got == outcome[c].value
               data == loads(response[c].body)[2]
           IN  /\ IsList(got)
               /\ \A i \in 1..Len(got[2]) : IsStr(got[2][i])
               /\ PairsGet(data[2], K_stored_ids, PyNone) = PyList(<<M1, M2>>)
                    => got = PyList(<<M1, M2>>)

\* C4: the parameters of every query_memories request hold q and limit, and
\* hold filters exactly when the filters argument is neither None nor an
\* empty mapping; the filters parameter JSON-decodes to the argument.
C4_QueryParams ==
    \A c \in Callers :
        call[c].op = "query_memories"
        => LET p == request[c].params[2]
               f == call[c].filters
           IN  /\ HasKey(p, K_q) /\ PairsGet(p, K_q, PyNone) = call[c].query
               /\ HasKey(p, K_limit) /\ PairsGet(p, K_limit, PyNone) = call[c].limit
               /\ HasKey(p, K_filters) <=> ~(IsNone(f) \/ f = PyDict(<<>>))
               /\ HasKey(p, K_filters)
                    => /\ IsStr(PairsGet(p, K_filters, PyNone))
                       /\ loads(PairsGet(p, K_filters, PyNone)[2]) = <<TRUE, f>>

\* A query with filters whose keys and values need escaping is in flight.
C4_Witness ==
    /\ pc[1] = "sent"
    /\ call[1].op = "query_memories"
    /\ call[1].filters = Rec2
    /\ HasKey(request[1].params[2], K_filters)

\* C5: every call issues exactly one request, however it ends, so the
\* requests issued are as many as the calls made.
C5_OneRequestPerCall ==
    /\ n_requests = n_calls
    /\ \A c \in Callers : pc[c] # "idle" => sent[c] = 1

\* A second call has ended in a failure, after a first one.
C5_Witness ==
    /\ n_calls >= 2
    /\ pc[1] = "done"
    /\ outcome[1].kind = "raise"
    /\ n_requests = n_calls

\* C6: add_memories sends a POST to <base_url>/api/v1/mesh/memories whose
\* JSON body is an object with the single key memories, holding the input
\* sequence unchanged.
C6_AddMemoriesBody ==
    \A c \in Callers :
        call[c].op = "add_memories"
        => LET data == loads(request[c].body) IN
           /\ request[c].method = "POST"
           /\ request[c].url = FStr(base_url) \o MEMORIES_PATH
           /\ data[1]
           /\ IsDict(data[2])
           /\ Len(data[2][2]) = 1
           /\ data[2][2][1] = <<K_memories, call[c].memories>>

\* Two records, one of them with characters that need escaping, are sent.
C6_Witness ==
    /\ pc[1] = "sent"
    /\ call[1].op = "add_memories"
    /\ call[1].memories = MemoryChoices[3]
    /\ sent[1] = 1

\* Every request in flight or answered carries the credentials and targets
\* the base URL of the client.
RequestsCarryCredentials ==
    \A c \in Callers :
        pc[c] # "idle"
        => /\ PairsGet(request[c].headers[2], H_Authorization, PyNone)
                = PyStr(<<"Bearer ">> \o ctor.api_key[2])
           /\ request[c].url
                = base_url[2] \o (IF call[c].op = "add_memories"
                                  THEN MEMORIES_PATH ELSE QUERY_PATH)

\* C7: no call changes api_key or base_url, and every request carries
\* Authorization: Bearer <api_key> with the api_key given at construction
\* and targets the base URL fixed at construction.
C7_CredentialsImmutable ==
    /\ [](api_key = ctor.api_key /\ RequestsCarryCredentials)
    /\ [][api_key' = api_key /\ base_url' = base_url]_vars

\* The request of a second call, on a client built with its own base URL.
C7_Witness ==
    /\ n_calls = 2
    /\ pc[1] = "sent"
    /\ ctor.base_url = BaseUrlChoices[3]
    /\ ctor.api_key = ApiKeyChoices[2]

\* C8: construction stores the API key and the base URL verbatim: every
\* base URL string the caller supplies, the empty string too, is the
\* client's base_url, and the default is used only when it is omitted.
C8_StoredVerbatim ==
    /\ api_key = ctor.api_key
    /\ IF IsNone(ctor.base_url)
       THEN base_url = PyStr(DEFAULT_BASE_URL)
       ELSE base_url = ctor.base_url

\* C9: a call whose request fails in transport, or whose success-status
\* response has a body that is no valid JSON, ends in a failure and returns
\* no result.
C9_ErrorsPropagate ==
    \A c \in Callers :
        (/\ pc[c] = "done"
         /\ \/ response[c].kind = "none"
            \/ /\ response[c].status \notin 400..599
               /\ ~loads(response[c].body)[1])
        => /\ outcome[c].kind = "raise"
           /\ outcome[c].value = PyNone

\* A 200 whose body is cut short ended query_memories in a failure.
C9_Witness ==
    /\ pc[1] = "done"
    /\ call[1].op = "query_memories"
    /\ response[1].status = 200
    /\ response[1].body = BodyChoices[10]
    /\ outcome[1].error = "JSONDecodeError"

\* The request the arguments of caller c's call make, with the client's
\* credentials.
OwnRequest(c) ==
    IF call[c].op = "add_memories"
    THEN AddMemoriesRequest(ctor.api_key, base_url, call[c].memories)
    ELSE QueryMemoriesRequest(ctor.api_key, base_url, call[c].query,
                              call[c].limit, call[c].filters)

\* What the response to caller c's own request makes its call end in.
OwnOutcome(c) ==
    IF response[c].kind = "none" THEN Raises("ConnectionError", 0, <<>>)
    ELSE Finish(FieldOf(c), response[c].status, response[c].body)

\* C10: under every interleaving of calls in flight, each call's request is
\* built from its own arguments and the client's credentials, and each
\* call's outcome is decided by the response to its own request.
C10_CallsIndependent ==
    \A c \in Callers :
        /\ pc[c] # "idle" => request[c] = OwnRequest(c)
        /\ pc[c] = "done" => outcome[c] = OwnOutcome(c)
        /\ pc[c] \in {"sent", "received"} => outcome[c] = Pending

\* Two calls of different operations hold different responses at once.
C10_Witness ==
    /\ pc[1] = "received"
    /\ pc[2] = "received"
    /\ call[1].op = "add_memories"
    /\ call[2].op = "query_memories"
    /\ response[1].status = 404
    /\ response[2].status = 200
====
